---- MODULE Spec2Model ----
(***************************************************************************)
(* Real-Time-Twitter-Analysis: the ingestion script (dataExtraction.py),   *)
(* the Tweets table it appends to, the two dashboard callbacks of app.py   *)
(* that read the table back, and the builder of countries.p                *)
(* (locationCreation.py).                                                  *)
(*                                                                         *)
(* Texts are sequences of one-character strings.  Times are whole seconds. *)
(* An optional value (Python None or a value) is a sequence of length at   *)
(* most one: None == <<>>, Some(x) == <<x>>.                               *)
(***************************************************************************)
EXTENDS Integers, Sequences, FiniteSets, TLC

VARIABLES
    state,      \* position of the while-True loop of dataExtraction.py
    attempts,   \* parity of the number of connection attempts made so far
    store,      \* the Tweets table: rows in insertion (rowid) order
    ev,         \* the stream message handled by the last ingestion step
    last,       \* what the last ingestion step did
    nev,        \* number of statuses delivered to on_status so far
    now,        \* the wall clock, UTC seconds
    locationdata, \* the rows of worldcities.csv
    lookup,     \* the triple pickled in countries.p
    top_out,    \* what the last update_graph_live pass produced
    bottom_out  \* what the last update_graph_bottom_live pass produced

vars ==
    <<state, attempts, store, ev, last, nev, now, locationdata, lookup,
      top_out, bottom_out>>

None == <<>>
Some(x) == <<x>>

----------------------------------------------------------------------------
(* Bounds of the model *)

MaxEvents == 2      \* statuses delivered in one run of the ingestion loop
MaxRows == 3        \* rows of a table handed to update_graph_live
MaxGeoRows == 2
MaxCsvRows == 3     \* rows of a table handed to update_graph_bottom_live
Now0 == 200000      \* the clock reading, UTC seconds

----------------------------------------------------------------------------
(* Characters and texts *)

AsciiChars == {"a", "b", "t", "u", "1", "#", " "}
Letters == {"a", "b", "t", "u"}
Digits == {"1"}
NonAsciiChars == {"emoji"}

\* text.encode('ascii', 'ignore').decode('ascii') of deEmojify, with its
\* falsy test: None and the empty string give None.
deEmojify(text) ==
    IF text = None \/ text[1] = <<>>
    THEN None
    ELSE Some(SelectSeq(text[1], LAMBDA c : c \in AsciiChars))

----------------------------------------------------------------------------
(* The Tweets table (dataExtraction.py, TABLE_ATTRIBUTES).  Of the thirteen  *)
(* columns the model keeps the five that app.py selects; the other eight are *)
(* copied from the status into the row and never read again.  The table has  *)
(* no PRIMARY KEY and no UNIQUE column.                                      *)

Row(id_str, created_at, text, polarity, user_location) ==
    [id_str |-> id_str, created_at |-> created_at, text |-> text,
     polarity |-> polarity, user_location |-> user_location]

\* Variant: INSERT OR REPLACE on id_str, which drops the stored rows of the
\* same id.
insert_or_replace_row(table, row) ==
    Append(SelectSeq(table, LAMBDA r : r.id_str # row.id_str), row)

\* INSERT INTO Tweets (...) VALUES (...); conn.commit()
insert_row(table, row) == Append(table, row)

----------------------------------------------------------------------------
(* MyStreamListener *)

\* Variant: the nested retweeted_status is not looked at.
status_text_own(status) ==
    IF status.extended_tweet # None
    THEN Some(status.extended_tweet[1])
    ELSE status.text

\* The text on_status keeps: status.text, overwritten by the status's own
\* extended_tweet full_text, overwritten again by the full_text of
\* retweeted_status.extended_tweet when the status has both attributes.
status_text(status) ==
    LET text0 == status.text
        text1 == IF status.extended_tweet # None
                 THEN Some(status.extended_tweet[1])
                 ELSE text0
    IN  IF status.retweeted_status # None
           /\ status.retweeted_status[1].extended_tweet # None
        THEN Some(status.retweeted_status[1].extended_tweet[1])
        ELSE text1

\* on_status after the retweeted test.  TextBlob(None) raises TypeError;
\* sentiment is the polarity TextBlob returns for the text (tenths); db_ok
\* is whether mycursor.execute / conn.commit succeed.  Nothing in on_status
\* catches an exception.
on_status_body(status, sentiment, db_ok) ==
    LET text == deEmojify(status_text(status))
        user_location == deEmojify(status.user_location)
    IN  IF text = None
        THEN [outcome |-> "raised", rows |-> <<>>]
        ELSE IF ~db_ok
        THEN [outcome |-> "raised", rows |-> <<>>]
        ELSE [outcome |-> "inserted",
              rows |-> <<Row(status.id_str, status.created_at, text[1],
                             sentiment, user_location)>>]

\* Variant: no test of status.retweeted.
on_status_keeps_retweets(status, sentiment, db_ok) ==
    on_status_body(status, sentiment, db_ok)

\* on_status: a status whose retweeted flag is set is dropped with return
\* True before anything else is read.
on_status(status, sentiment, db_ok) ==
    IF status.retweeted
    THEN [outcome |-> "returned_true", rows |-> <<>>]
    ELSE on_status_body(status, sentiment, db_ok)

\* on_error: False for 420, otherwise falls off the end (None).
on_error(status_code) == IF status_code = 420 THEN "False" ELSE "None"

----------------------------------------------------------------------------
(* The while-True loop around tweepy.Stream.filter *)

\* Variant: the exception is not swallowed and ends the script.
except_stop == "TERMINATED"

\* except: continue
except_continue == "RECONNECTING"

\* Stream.filter got a non-200 answer: it calls on_error; on False it stops
\* running and filter returns, so the loop body ends and while True starts
\* it again; otherwise the library asks again itself.  Either way no
\* connection is up.
after_http_error(status_code) ==
    IF on_error(status_code) = "False"
    THEN [state |-> "RECONNECTING", last |-> "filter_returned"]
    ELSE [state |-> "RECONNECTING", last |-> "library_retry"]

StatusCodes == {200, 420, 503}
Polarities == {-5, 0, 5}

NoStatus ==
    [retweeted |-> FALSE, id_str |-> "", created_at |-> 0, text |-> None,
     extended_tweet |-> None, retweeted_status |-> None,
     user_location |-> None, sentiment |-> 0, db_ok |-> TRUE]

\* A connection attempt: lines 145-150 up to the answer of the stream request.
Connect ==
    /\ state = "RECONNECTING"
    /\ \E code \in StatusCodes :
          IF code = 200
          THEN state' = "CONNECTED" /\ last' = "connected"
          ELSE /\ state' = after_http_error(code).state
               /\ last' = after_http_error(code).last
    /\ attempts' = (attempts + 1) % 2
    /\ UNCHANGED <<store, ev, nev, now, locationdata, lookup, top_out, bottom_out>>

\* A connection attempt that raises (OAuth, DNS, refused, ...).
ConnectRaise ==
    /\ state = "RECONNECTING"
    /\ state' = except_continue
    /\ last' = "connect_raised"
    /\ attempts' = (attempts + 1) % 2
    /\ UNCHANGED <<store, ev, nev, now, locationdata, lookup, top_out, bottom_out>>

\* The open stream fails: filter raises out of its read loop.
StreamRaise ==
    /\ state = "CONNECTED"
    /\ state' = except_continue
    /\ last' = "stream_raised"
    /\ UNCHANGED <<attempts, store, ev, nev, now, locationdata, lookup, top_out,
                   bottom_out>>

\* The open stream delivers one status.  An exception of on_status leaves
\* filter (the library closes the connection and re-raises) and reaches
\* except: continue.
OnStatus(Events, limit) ==
    /\ state = "CONNECTED"
    /\ nev < limit
    /\ \E status \in Events :
          LET r == on_status(status, status.sentiment, status.db_ok)
          IN  /\ ev' = status
              /\ last' = r.outcome
              /\ store' = IF r.rows = <<>> THEN store
                          ELSE insert_row(store, r.rows[1])
              /\ state' = IF r.outcome = "raised" THEN except_continue
                          ELSE "CONNECTED"
    /\ nev' = nev + 1
    /\ UNCHANGED <<attempts, now, locationdata, lookup, top_out, bottom_out>>

----------------------------------------------------------------------------
(* config.py helpers used by the dashboard *)

\* The local zone's offset from UTC, seconds (tz.tzlocal() of dateconversion).
TzOffset == 19800

\* A bucketing that takes scores within a tenth of zero for neutral.
polarity_change_rounded(polarity) ==
    IF polarity < -1 THEN -1
    ELSE IF polarity > 1 THEN 1
    ELSE 0

\* strptime as UTC, astimezone(local); the callbacks then drop the tzinfo.
dateconversion(t) == t + TzOffset

polarity_change(polarity) ==
    IF polarity < 0 THEN -1
    ELSE IF polarity > 0 THEN 1
    ELSE 0

----------------------------------------------------------------------------
(* app.py: update_graph_live *)

WindowSeconds == 1800    \* timedelta(minutes=30)
BucketSeconds == 10      \* freq='10s'
Min10 == 600             \* timedelta(minutes=10)
Min20 == 1200            \* timedelta(minutes=20)
DaySeconds == 86400      \* timedelta(days=1) and '%Y-%m-%d'
DailyCutoff == 66600     \* ' 18:30:00'

RECURSIVE SortedSeq(_)
\* The elements of a finite set of integers in ascending order.
SortedSeq(S) ==
    IF S = {} THEN <<>>
    ELSE LET m == CHOOSE x \in S : \A y \in S : x <= y
         IN  <<m>> \o SortedSeq(S \ {m})

RECURSIVE Concat(_)
Concat(ss) == IF ss = <<>> THEN <<>> ELSE Head(ss) \o Concat(Tail(ss))

Count(seq, P(_)) == Len(SelectSeq(seq, P))

\* SELECT id_str, text, created_at, polarity, user_location FROM Tweets
\* WHERE created_at >= utcnow - 30 minutes
WindowedRead(table, utcnow) ==
    SelectSeq(table, LAMBDA r : r.created_at >= utcnow - WindowSeconds)

\* df after lines 152-155: polarity bucketed, created_at in local time.
TopFrame(table, utcnow) ==
    LET df == WindowedRead(table, utcnow)
    IN  [i \in 1..Len(df) |->
            [df[i] EXCEPT !.polarity = polarity_change(df[i].polarity),
                          !.created_at = dateconversion(df[i].created_at)]]

\* pd.Grouper(key='created_at', freq='10s'): the start of the 10 s bin.
Bin(t) == t - (t % BucketSeconds)

\* groupby([Grouper, 'polarity']).count() has one entry per (bin, polarity)
\* pair that occurs in df; unstack(fill_value=0).stack() completes it to the
\* product of the bins that occur and the polarity values that occur, in
\* (Time, polarity) order.  Each entry counts the id_str of its pair.
GroupResult(df) ==
    LET bins == SortedSeq({Bin(df[i].created_at) : i \in 1..Len(df)})
        classes == SortedSeq({df[i].polarity : i \in 1..Len(df)})
        cell(b, p) ==
            [Time |-> b, polarity |-> p,
             n |-> Count(df, LAMBDA r : Bin(r.created_at) = b /\ r.polarity = p)]
    IN  Concat([i \in 1..Len(bins) |->
                  [j \in 1..Len(classes) |-> cell(bins[i], classes[j])]])

RECURSIVE SumN(_)
SumN(seq) == IF seq = <<>> THEN 0 ELSE Head(seq).n + SumN(Tail(seq))

\* result[result['Time'] > min10][Num][result['polarity'] == p].sum()
RollingNum(result, min10, p) ==
    SumN(SelectSeq(result, LAMBDA c : c.Time > min10 /\ c.polarity = p))

\* (count_now - count_before) / count_before * 100 on numpy int64 counts:
\* a zero divisor gives inf (nan for 0/0) with a warning, not an exception.
Percent(count_now, count_before) ==
    IF count_before = 0
    THEN [kind |-> IF count_now - count_before = 0 THEN "nan" ELSE "inf",
          num |-> 0, den |-> 0]
    ELSE [kind |-> "num", num |-> (count_now - count_before) * 100,
          den |-> count_before]

\* percent <= 0 as Python evaluates it (nan compares False).
PercentLeqZero(percent) == percent.kind = "num" /\ percent.num <= 0

\* '{0:.2f}%' or '+{0:.2f}%': the sign prefix and the value in hundredths
\* of a percent (to the nearest hundredth), or the text inf / nan.
PercentText(percent) ==
    [plus |-> ~PercentLeqZero(percent),
     text |-> percent.kind,
     hundredths |-> IF percent.kind = "num"
                    THEN (2 * percent.num * 100 + percent.den)
                             \div (2 * percent.den)
                    ELSE 0]

\* result[Num][result['polarity'] == p].reset_index(drop=True): the counts
\* of the entries of class p, in the order of result.
SeriesOf(result, p) ==
    LET rows == SelectSeq(result, LAMBDA c : c.polarity = p)
    IN  [i \in 1..Len(rows) |-> rows[i].n]

NoTop ==
    [status |-> "none", result |-> <<>>, time_series |-> <<>>,
     Neutrals |-> <<>>, Negatives |-> <<>>, Positives |-> <<>>,
     neu_num |-> 0, neg_num |-> 0, pos_num |-> 0,
     count_now |-> 0, count_before |-> 0,
     percent |-> [kind |-> "num", num |-> 0, den |-> 1],
     percent_text |-> [plus |-> FALSE, text |-> "num", hundredths |-> 0],
     daily_impressions |-> 0, daily_tweets_num |-> 0]

\* What one pass of update_graph_live computes from the table at utcnow.
update_graph_live(table, utcnow) ==
    LET df == TopFrame(table, utcnow)
        localnow == utcnow + TzOffset
        dailytime == ((localnow - DaySeconds)
                        - ((localnow - DaySeconds) % DaySeconds)) + DailyCutoff
        result == GroupResult(df)
        min10 == localnow - Min10
        min20 == localnow - Min20
        count_now == Count(df, LAMBDA r : r.created_at > min10)
        count_before ==
            Count(df, LAMBDA r : min20 < r.created_at /\ r.created_at < min10)
        percent == Percent(count_now, count_before)
    IN  [status |-> "ok",
         result |-> result,
         time_series |->
            [i \in 1..Len(SelectSeq(result, LAMBDA c : c.polarity = 0)) |->
                SelectSeq(result, LAMBDA c : c.polarity = 0)[i].Time],
         Neutrals |-> SeriesOf(result, 0),
         Negatives |-> [i \in 1..Len(SeriesOf(result, -1)) |->
                          -SeriesOf(result, -1)[i]],
         Positives |-> SeriesOf(result, 1),
         neu_num |-> RollingNum(result, min10, 0),
         neg_num |-> RollingNum(result, min10, -1),
         pos_num |-> RollingNum(result, min10, 1),
         count_now |-> count_now,
         count_before |-> count_before,
         percent |-> percent,
         percent_text |-> PercentText(percent),
         daily_impressions |-> Len(table),
         daily_tweets_num |-> Count(table, LAMBDA r : r.created_at >= dailytime)]

\* The timer fires update_graph_live.  On an empty window the pandas
\* pipeline of line 158 either goes through with an empty result or raises,
\* depending on the pandas build.
UpdateGraphLive ==
    /\ \E empty_raises \in BOOLEAN :
          /\ empty_raises => WindowedRead(store, now) = <<>>
          /\ top_out' = IF empty_raises
                        THEN [NoTop EXCEPT !.status = "raised"]
                        ELSE update_graph_live(store, now)
    /\ UNCHANGED <<state, attempts, store, ev, last, nev, now, locationdata,
                   lookup, bottom_out>>

----------------------------------------------------------------------------
(* locationCreation.py: the builder of countries.p *)

\* dict built by "for key, val in zip(keys, vals): d[key] = val": the last
\* value zipped with a key stays; zip stops at the shorter list.
ZipDict(keys, vals) ==
    LET m == IF Len(keys) <= Len(vals) THEN Len(keys) ELSE Len(vals)
        lastOf(k) == CHOOSE i \in 1..m :
                        keys[i] = k /\ \A j \in (i + 1)..m : keys[j] # k
    IN  [k \in {keys[i] : i \in 1..m} |-> vals[lastOf(k)]]

Column(csv, col) == [i \in 1..Len(csv) |-> csv[i][col]]

Range(seq) == {seq[i] : i \in 1..Len(seq)}

\* list(set(xs)): the distinct elements in some order.
ListsOfSet(S) ==
    {q \in [1..Cardinality(S) -> S] : Range(q) = S}

\* The triple pickled by the script for the rows of worldcities.csv;
\* country_list and code_list are list(set(country)) and
\* list(set(countrycode)) in the order the interpreter enumerates them.
BuildLookup(csv, country_list, code_list) ==
    LET Location == Column(csv, "city_ascii") \o country_list
        countrycode == Column(csv, "iso3") \o code_list
    IN  [STATES |-> Location,
         STATE_DICT |-> ZipDict(Location, countrycode),
         INV_STATE_DICT |-> ZipDict(Column(csv, "iso3"), Column(csv, "country"))]

\* Every countries.p the script can write for the rows csv.
LookupsOf(csv) ==
    {BuildLookup(csv, cl, kl) :
        cl \in ListsOfSet(Range(Column(csv, "country"))),
        kl \in ListsOfSet(Range(Column(csv, "iso3")))}

\* countries.p before the script has run.
NoLookup == [STATES |-> <<>>, STATE_DICT |-> <<>>, INV_STATE_DICT |-> <<>>]

\* One run of the script: it reads worldcities.csv and writes countries.p.
locationCreation ==
    /\ lookup' \in LookupsOf(locationdata)
    /\ UNCHANGED <<state, attempts, store, ev, last, nev, now, locationdata,
                   top_out, bottom_out>>

----------------------------------------------------------------------------
(* app.py: update_graph_bottom_live *)

\* Python's "s in x" on strings.
IsSubstring(s, x) ==
    \E i \in 0..(Len(x) - Len(s)) : SubSeq(x, i + 1, i + Len(s)) = s

\* df.fillna(" ") on user_location.
FillNa(loc) == IF loc = None THEN <<" ">> ELSE loc[1]

\* Variant: no break, the last name found in x decides.
FirstMatchLast(lk, x) ==
    LET hits == {i \in 1..Len(lk.STATES) : IsSubstring(lk.STATES[i], x)}
    IN  IF hits = {} THEN None
        ELSE LET i == CHOOSE h \in hits : \A k \in hits : h >= k
                 s == lk.STATES[i]
             IN  Some(IF s \in DOMAIN lk.STATE_DICT
                      THEN lk.STATE_DICT[s] ELSE s)

\* The inner loop over STATES for one location x: the entry appended to
\* is_in_US (None when no name is found in x).
FirstMatch(lk, x) ==
    LET hits == {i \in 1..Len(lk.STATES) : IsSubstring(lk.STATES[i], x)}
    IN  IF hits = {} THEN None
        ELSE LET i == CHOOSE h \in hits : \A k \in hits : h <= k
                 s == lk.STATES[i]
             IN  Some(IF s \in DOMAIN lk.STATE_DICT
                      THEN lk.STATE_DICT[s] ELSE s)

is_in_US(lk, df) == [i \in 1..Len(df) |-> FirstMatch(lk, FillNa(df[i].user_location))]

\* DataFrame(is_in_US).dropna().groupby('State').count(): Number per State.
GeoDist(matches) ==
    LET kept == SelectSeq(matches, LAMBDA m : m # None)
    IN  [c \in {kept[i][1] : i \in 1..Len(kept)} |->
            Count(kept, LAMBDA m : m[1] = c)]

TopN == 10           \* most_common(10)
MinWordLen == 3      \* len(w) >= 3

IsWord(c) == c \in Letters \cup Digits

\* ' '.join(df["text"])
RECURSIVE JoinTexts(_)
JoinTexts(texts) ==
    IF texts = <<>> THEN <<>>
    ELSE IF Len(texts) = 1 THEN texts[1]
    ELSE texts[1] \o <<" ">> \o JoinTexts(Tail(texts))

\* The end of the maximal run of characters satisfying P that starts at
\* position i (i - 1 when content[i] does not satisfy P).
RunEnd(content, i, P(_)) ==
    CHOOSE j \in (i - 1)..Len(content) :
        /\ \A k \in i..j : P(content[k])
        /\ (j = Len(content) \/ ~P(content[j + 1]))

\* config.hastag: re.findall(r'\B#\w*[a-zA-Z]+\w*', text).  A '#' matches
\* when no word character precedes it and the word characters after it
\* hold a letter; the match is the '#' and that whole run.
hastag(content) ==
    LET starts == {i \in 1..Len(content) :
                     /\ content[i] = "#"
                     /\ (i = 1 \/ ~IsWord(content[i - 1]))
                     /\ \E k \in (i + 1)..RunEnd(content, i + 1, IsWord) :
                            content[k] \in Letters}
        order == SortedSeq(starts)
    IN  [n \in 1..Len(order) |->
            SubSeq(content, order[n], RunEnd(content, order[n] + 1, IsWord))]

\* The tokens of the cleaned, lower-cased content: re.sub('[^A-Za-z0-9]+',
\* ' ', content) leaves runs of letters and digits, word_tokenize splits
\* them at the blanks.
Tokens(content) ==
    LET starts == {i \in 1..Len(content) :
                     IsWord(content[i]) /\ (i = 1 \/ ~IsWord(content[i - 1]))}
        order == SortedSeq(starts)
    IN  [n \in 1..Len(order) |->
            SubSeq(content, order[n], RunEnd(content, order[n], IsWord))]

\* stopwords.words("english"), the entries spelled with Letters that the
\* length filter does not already drop.
stop_words == {<<"b", "u", "t">>}

FirstIndex(seq, x) == CHOOSE i \in 1..Len(seq) : seq[i] = x /\ \A j \in 1..(i - 1) : seq[j] # x

RECURSIVE RankFrom(_, _, _)
\* The words of the set left, most frequent first, ties in order of first
\* appearance in seq; at most n of them.
RankFrom(seq, left, n) ==
    IF left = {} \/ n = 0 THEN <<>>
    ELSE LET freq(w) == Count(seq, LAMBDA x : x = w)
             best == CHOOSE w \in left : \A v \in left :
                        \/ freq(w) > freq(v)
                        \/ freq(w) = freq(v) /\ FirstIndex(seq, w) <= FirstIndex(seq, v)
         IN  <<[Word |-> best, Frequency |-> freq(best)]>>
                 \o RankFrom(seq, left \ {best}, n - 1)

\* FreqDist(words).most_common(n)
most_common(words, n) == RankFrom(words, Range(words), n)

NoBottom ==
    [status |-> "none", raised_at |-> 0, is_in_US |-> <<>>,
     geo_dist |-> <<>>, full_state_name |-> <<>>, fd |-> <<>>,
     word_cloud_words |-> <<>>]

\* What one pass of update_graph_bottom_live does with the table at utcnow
\* and the triple lk of countries.p.  is_in_US and geo_dist are the locals of
\* lines 366-382, computed before any statement that can raise.
\* INV_STATE_DICT[x] raises KeyError for a State it has no key for (line
\* 385); drop([0]) raises KeyError on an empty frame (line 398); the word
\* cloud raises ValueError when given no word (line 411).
update_graph_bottom_live(table, utcnow, lk) ==
    LET df == WindowedRead(table, utcnow)
        content == JoinTexts([i \in 1..Len(df) |-> df[i].text])
        hashtags == hastag(content)
        matches == is_in_US(lk, df)
        geo_dist == GeoDist(matches)
        top == most_common(hashtags, TopN)
        filtered_sent ==
            SelectSeq(Tokens(content),
                      LAMBDA w : w \notin stop_words /\ Len(w) >= MinWordLen)
        locals == [NoBottom EXCEPT !.is_in_US = matches, !.geo_dist = geo_dist]
    IN  IF \E x \in DOMAIN geo_dist : x \notin DOMAIN lk.INV_STATE_DICT
        THEN [locals EXCEPT !.status = "raised", !.raised_at = 385]
        ELSE IF top = <<>>
        THEN [locals EXCEPT !.status = "raised", !.raised_at = 398]
        ELSE IF filtered_sent = <<>>
        THEN [locals EXCEPT !.status = "raised", !.raised_at = 411]
        ELSE [locals EXCEPT
                !.status = "ok",
                !.full_state_name =
                    [x \in DOMAIN geo_dist |-> lk.INV_STATE_DICT[x]],
                !.fd = Tail(top),
                !.word_cloud_words =
                    [w \in Range(filtered_sent) |->
                        Count(filtered_sent, LAMBDA x : x = w)]]

\* The timer fires update_graph_bottom_live.
UpdateGraphBottomLive ==
    /\ bottom_out' = update_graph_bottom_live(store, now, lookup)
    /\ UNCHANGED <<state, attempts, store, ev, last, nev, now, top_out,
                   locationdata, lookup>>

----------------------------------------------------------------------------
(* The inputs *)

RECURSIVE SeqsUpTo(_, _)
\* The sequences over S of length at most n.
SeqsUpTo(S, n) ==
    IF n = 0 THEN {<<>>}
    ELSE LET shorter == SeqsUpTo(S, n - 1)
         IN  shorter \cup {Append(q, x) : q \in shorter, x \in S}

TagText == <<"#", "a", "b", "t">>
TwoTagText == <<"#", "a", " ", "#", "a", "b", "t">>

\* Statuses the stream delivers in the ingestion specification.
StreamEvents ==
    [retweeted : BOOLEAN, id_str : {"1", "2"}, created_at : {Now0 - 5},
     text : {None, Some(TagText)}, extended_tweet : {None},
     retweeted_status : {None},
     user_location : {None}, sentiment : {0, 5}, db_ok : BOOLEAN]

\* Statuses of every shape on_status distinguishes.
TextEvents ==
    [retweeted : BOOLEAN, id_str : {"1"}, created_at : {Now0 - 5},
     text : {None, Some(<<>>), Some(<<"a">>), Some(<<"a", "emoji">>)},
     extended_tweet : {None, Some(<<"b">>), Some(<<"emoji", "b">>)},
     retweeted_status : {None, Some([extended_tweet |-> None]),
                         Some([extended_tweet |-> Some(<<"t">>)]),
                         Some([extended_tweet |-> Some(<<"emoji">>)])},
     user_location : {None, Some(<<"a", "emoji">>)},
     sentiment : Polarities, db_ok : BOOLEAN]

CsvRow(city, country, iso3) ==
    [city_ascii |-> city, country |-> country, iso3 |-> iso3]

\* worldcities.csv files: one country; two countries; two cities of one
\* name in two countries; two country spellings under one code.
Csvs ==
    {<<CsvRow(<<"a">>, <<"u">>, <<"u", "1">>)>>,
     <<CsvRow(<<"a">>, <<"u">>, <<"u", "1">>),
       CsvRow(<<"t">>, <<"b">>, <<"b", "1">>)>>,
     <<CsvRow(<<"t">>, <<"u">>, <<"u", "1">>),
       CsvRow(<<"t">>, <<"b">>, <<"b", "1">>)>>,
     <<CsvRow(<<"a">>, <<"u">>, <<"u", "1">>),
       CsvRow(<<"t">>, <<"b">>, <<"u", "1">>)>>}

\* Every countries.p the builder can write for one of the files.
Lookups == UNION {LookupsOf(csv) : csv \in Csvs}

\* A worldcities.csv of one city and the countries.p built from it.
Csv0 == <<CsvRow(<<"a">>, <<"u">>, <<"u", "1">>)>>
Lookup0 == BuildLookup(Csv0, <<<<"u">>>>, <<<<"u", "1">>>>)

\* Rows of a worldcities.csv in which every country has one code and every
\* code one country; one city has the name of a country.
CityRows ==
    {CsvRow(city, c[1], c[2]) :
        city \in {<<"a">>, <<"b">>},
        c \in {<<<<"u">>, <<"u", "1">>>>, <<<<"b">>, <<"b", "1">>>>,
               <<<<"t">>, <<"t", "1">>>>}}

WorldCities == SeqsUpTo(CityRows, MaxCsvRows)

\* Rows as on_status writes them, for update_graph_live: out of the window,
\* in the earlier ten minutes, in the 10 s bin the last ten minutes begin
\* in, and in three adjacent 10 s bins of the last ten minutes.
TopRows ==
    {Row("1", t, TagText, p, None) :
        t \in {Now0 - 2000, Now0 - 900, Now0 - 597, Now0 - 30, Now0 - 18,
               Now0 - 5},
        p \in Polarities}

\* Sentiment scores in tenths: the extremes, zero, and the smallest ones
\* on either side of zero.
Scores == {-10, -1, 0, 1, 10}

\* Rows of every score, in two 10 s bins of the window.
ScoreRows ==
    {Row("1", t, TagText, p, None) : t \in {Now0 - 18, Now0 - 5}, p \in Scores}

\* Rows as on_status writes them, for update_graph_bottom_live.
GeoRows ==
    {Row("1", Now0 - 5, txt, 0, loc) :
        txt \in {TagText, TwoTagText, <<"a">>},
        loc \in {None, Some(<<"a", " ", "t", " ", "u">>), Some(<<"b">>),
                 Some(<<"1">>)}}
    \cup {Row("1", Now0 - 2000, TagText, 0, Some(<<"a">>))}

----------------------------------------------------------------------------
(* Specifications *)

InitRest ==
    /\ attempts = 0
    /\ ev = NoStatus
    /\ last = "start"
    /\ nev = 0
    /\ now = Now0
    /\ top_out = NoTop
    /\ bottom_out = NoBottom

\* The script starts: the table exists (CREATE TABLE IF NOT EXISTS) and the
\* loop is about to make its first connection attempt.
Init ==
    /\ state = "RECONNECTING"
    /\ store = <<>>
    /\ locationdata = Csv0
    /\ lookup = Lookup0
    /\ InitRest

Deliver == OnStatus(StreamEvents, MaxEvents)

Next ==
    \/ Connect
    \/ ConnectRaise
    \/ StreamRaise
    \/ Deliver
    \/ UpdateGraphLive
    \/ UpdateGraphBottomLive

Spec == Init /\ [][Next]_vars

\* The loop is one thread that never waits before calling filter again.
FairSpec == Spec /\ WF_vars(Connect \/ ConnectRaise)

\* on_status on one status of any shape, on an open stream.
TextInit ==
    /\ state = "CONNECTED"
    /\ store = <<>>
    /\ locationdata = Csv0
    /\ lookup = Lookup0
    /\ InitRest

DeliverAny == OnStatus(TextEvents, 1)

SpecText == TextInit /\ [][DeliverAny]_vars

\* update_graph_live on a table of rows.
TopInit ==
    /\ state = "CONNECTED"
    /\ store \in SeqsUpTo(TopRows, MaxRows)
    /\ locationdata = Csv0
    /\ lookup = Lookup0
    /\ InitRest

SpecTop == TopInit /\ [][UpdateGraphLive]_vars

\* update_graph_live on a table of rows of every score.
ScoreInit ==
    /\ state = "CONNECTED"
    /\ store \in SeqsUpTo(ScoreRows, MaxRows)
    /\ locationdata = Csv0
    /\ lookup = Lookup0
    /\ InitRest

SpecScore == ScoreInit /\ [][UpdateGraphLive]_vars

\* update_graph_bottom_live on a table of rows and a countries.p.
GeoInit ==
    /\ state = "CONNECTED"
    /\ store \in SeqsUpTo(GeoRows, MaxGeoRows)
    /\ locationdata \in Csvs
    /\ lookup \in LookupsOf(locationdata)
    /\ InitRest

SpecGeo == GeoInit /\ [][UpdateGraphBottomLive]_vars

\* locationCreation.py on a worldcities.csv, countries.p not yet written.
BuildInit ==
    /\ state = "RECONNECTING"
    /\ store = <<>>
    /\ locationdata \in WorldCities
    /\ lookup = NoLookup
    /\ InitRest

SpecBuild == BuildInit /\ [][locationCreation]_vars

----------------------------------------------------------------------------
(* Properties of the ingestion loop *)

ConnectionErrors == {"connect_raised", "stream_raised", "filter_returned"}

\* C1: the loop is always CONNECTED or RECONNECTING; after an exception
\* while connecting or on the open stream, and after on_error returned
\* False for a 420, it is RECONNECTING; and whenever it is RECONNECTING one
\* more connection attempt is made, however many were made before.
C1_AlwaysReconnects ==
    /\ [](state \in {"CONNECTED", "RECONNECTING"})
    /\ [](last \in ConnectionErrors => state = "RECONNECTING")
    /\ \A n \in {0, 1} :
          (state = "RECONNECTING" /\ attempts = n) ~> (attempts = 1 - n)

\* A 420 answer after statuses were handled: filter has returned and the
\* loop is about to connect again.
C1_Witness ==
    /\ last = "filter_returned"
    /\ state = "RECONNECTING"
    /\ nev > 0

\* C2: a delivered status with the retweeted flag set leaves the table as
\* it was and raises nothing (the stream stays open); a delivered status
\* without the flag that is well formed and whose insert succeeds appends
\* one row with its id, whatever was delivered before.
C2_RepostDiscarded ==
    [][nev' = nev + 1 =>
         IF ev'.retweeted
         THEN store' = store /\ last' = "returned_true" /\ state' = "CONNECTED"
         ELSE (ev'.text # None /\ ev'.db_ok) =>
                 /\ Len(store') = Len(store) + 1
                 /\ SubSeq(store', 1, Len(store)) = store
                 /\ store'[Len(store')].id_str = ev'.id_str]_vars

\* A flagged status is dropped while the row of the unflagged status of
\* the same id is in the table.
C2_Witness ==
    /\ last = "returned_true"
    /\ ev.retweeted
    /\ Len(store) = 1
    /\ store[1].id_str = ev.id_str

\* C3: a status whose handling fails (null text, failed insert) writes no
\* row and leaves the stream CONNECTED.
C3_EventFailureKeepsConnection ==
    [][(nev' = nev + 1 /\ ~ev'.retweeted /\ (ev'.text = None \/ ~ev'.db_ok)) =>
          store' = store /\ state' = "CONNECTED"]_vars

\* C4 as stated: the stored text is the status's own text (its extended
\* text when it has one, else its truncated text), never the text of the
\* nested original.
C4_OwnTextStored ==
    last = "inserted" =>
        Some(store[Len(store)].text) =
            deEmojify(IF ev.extended_tweet # None
                      THEN ev.extended_tweet ELSE ev.text)

\* C4 amended: the stored text is the ASCII part of the nested original's
\* extended text when the status has one, else of the status's own
\* extended text when it has one, else of its truncated text.
C4_StoredText ==
    last = "inserted" =>
        Some(store[Len(store)].text) =
            deEmojify(IF /\ ev.retweeted_status # None
                         /\ ev.retweeted_status[1].extended_tweet # None
                      THEN ev.retweeted_status[1].extended_tweet
                      ELSE IF ev.extended_tweet # None
                      THEN ev.extended_tweet
                      ELSE ev.text)

\* A status with its own extended text and a nested original with extended
\* text was stored, with the nested original's text.
C4_Witness ==
    /\ last = "inserted"
    /\ ev.extended_tweet = Some(<<"b">>)
    /\ ev.retweeted_status = Some([extended_tweet |-> Some(<<"t">>)])
    /\ store[Len(store)].text = <<"t">>

\* C5: no two rows of the table have the same id.
C5_UniqueIds ==
    \A i, j \in 1..Len(store) : store[i].id_str = store[j].id_str => i = j

\* C6: every step leaves the table as it was or appends one row to it;
\* the rows already there keep their place and their values.
C6_AppendOnly ==
    [][\/ store' = store
       \/ /\ Len(store') = Len(store) + 1
          /\ SubSeq(store', 1, Len(store)) = store]_vars

\* Both callbacks have run on a table that holds two rows of one id.
C6_Witness ==
    /\ Len(store) >= 2
    /\ store[1].id_str = store[2].id_str
    /\ top_out.status = "ok"
    /\ Len(top_out.result) > 0
    /\ bottom_out.status = "ok"

----------------------------------------------------------------------------
(* Properties of update_graph_live *)

PolarityClasses == {-1, 0, 1}

\* C7: the series holds, for every 10 s interval from the earliest to the
\* latest one a windowed row falls in and for every polarity class, exactly
\* one entry, whose count is the number of windowed rows of that class in
\* that interval (0 when there is none).
C7_DenseSeries ==
    top_out.status = "ok" =>
        LET df == TopFrame(store, now)
            occupied == {Bin(df[i].created_at) : i \in 1..Len(df)}
        IN  \A lo \in occupied, hi \in occupied :
              \A b \in lo..hi :
                b % BucketSeconds = 0 =>
                  \A p \in PolarityClasses :
                    \E k \in 1..Len(top_out.result) :
                      /\ top_out.result[k].Time = b
                      /\ top_out.result[k].polarity = p
                      /\ top_out.result[k].n =
                            Count(df, LAMBDA r : Bin(r.created_at) = b
                                                   /\ r.polarity = p)
                      /\ \A m \in 1..Len(top_out.result) :
                            (top_out.result[m].Time = b
                               /\ top_out.result[m].polarity = p) => m = k

\* C8: on a window that holds rows, the change is (last ten minutes - ten
\* minutes before) / (ten minutes before) x 100, and with no row in the ten
\* minutes before the pass shows neither infinity nor NaN.
C8_PercentDefined ==
    (top_out.status = "ok" /\ WindowedRead(store, now) # <<>>) =>
        IF top_out.count_before = 0
        THEN top_out.percent_text.text \notin {"inf", "nan"}
        ELSE /\ top_out.percent.kind = "num"
             /\ top_out.percent.num * top_out.count_before =
                    (top_out.count_now - top_out.count_before) * 100
                        * top_out.percent.den

----------------------------------------------------------------------------
(* Properties of update_graph_bottom_live *)

RECURSIVE SumOf(_, _)
SumOf(f, D) ==
    IF D = {} THEN 0
    ELSE LET x == CHOOSE y \in D : TRUE IN f[x] + SumOf(f, D \ {x})

\* The location text the scan sees for windowed row k.
ScannedLocation(df, k) ==
    IF df[k].user_location = None THEN <<" ">> ELSE df[k].user_location[1]

\* Name number i of the list is the first one found in x.
IsFirstFound(i, x) ==
    /\ IsSubstring(lookup.STATES[i], x)
    /\ \A j \in 1..(i - 1) : ~IsSubstring(lookup.STATES[j], x)

CodeOfName(i) ==
    IF lookup.STATES[i] \in DOMAIN lookup.STATE_DICT
    THEN lookup.STATE_DICT[lookup.STATES[i]]
    ELSE lookup.STATES[i]

C10_MissingInverseSkipped ==
    (/\ bottom_out.status # "none"
     /\ \E c \in DOMAIN bottom_out.geo_dist : c \notin DOMAIN lookup.INV_STATE_DICT)
        => bottom_out.raised_at # 385

\* The hashtags of the window, as line 358 extracts them.
WindowHashtags ==
    LET df == WindowedRead(store, now)
    IN  hastag(JoinTexts([i \in 1..Len(df) |-> df[i].text]))

\* C11: the displayed hashtag table holds ranks 2..min(10, n) of the
\* frequency ranking of the window's n distinct hashtags: it has
\* min(10, n) - 1 entries (none for n <= 1), each a hashtag of the window
\* with its number of occurrences, most frequent first, and a most
\* frequent hashtag is not in it.  Stated for windows that hold a row;
\* passes that raised at the lookup of a country name or at the word cloud
\* are left aside.
C11_HashtagRanks ==
    (/\ bottom_out.status # "none"
     /\ bottom_out.raised_at \notin {385, 411}
     /\ WindowedRead(store, now) # <<>>) =>
        LET tags == WindowHashtags
            distinct == Range(tags)
            n == Cardinality(distinct)
            freq(w) == Count(tags, LAMBDA x : x = w)
            fd == bottom_out.fd
            shown == {fd[i].Word : i \in 1..Len(fd)}
        IN  /\ bottom_out.status = "ok"
            /\ Len(fd) = IF n <= 1 THEN 0
                         ELSE (IF n < TopN THEN n ELSE TopN) - 1
            /\ \A i \in 1..Len(fd) :
                    /\ fd[i].Word \in distinct
                    /\ fd[i].Frequency = freq(fd[i].Word)
                    /\ \A j \in (i + 1)..Len(fd) :
                          /\ fd[i].Word # fd[j].Word
                          /\ fd[i].Frequency >= fd[j].Frequency
            /\ n >= 1 =>
                  \E w \in distinct \ shown :
                      \A v \in distinct : freq(w) >= freq(v)
            /\ Cardinality({w \in distinct \ shown :
                    \E i \in 1..Len(fd) : freq(w) > fd[i].Frequency}) <= 1

----------------------------------------------------------------------------
(* Properties of the headline numbers and the plotted series *)

\* C12: for each polarity class the headline number is the number of rows
\* of the window with that bucketed polarity whose created_at lies in the
\* last ten minutes, and the three numbers add up to count_now.
C12_RollingScalars ==
    top_out.status = "ok" =>
        LET df == TopFrame(store, now)
            min10 == dateconversion(now) - Min10
            rows(p) == Count(df, LAMBDA r : r.polarity = p
                                              /\ r.created_at > min10)
        IN  /\ top_out.neu_num = rows(0)
            /\ top_out.neg_num = rows(-1)
            /\ top_out.pos_num = rows(1)
            /\ top_out.neu_num + top_out.neg_num + top_out.pos_num
                  = top_out.count_now

\* C13: polarity_change gives -1 exactly for the scores below zero, 1
\* exactly for those above zero and 0 exactly for zero, and nothing else:
\* every entry of the series carries a class of {-1, 0, 1} and counts the
\* rows of its 10 s bin whose score has that sign, and every windowed row
\* is counted in the entry of its score's sign.
C13_PolaritySign ==
    top_out.status = "ok" =>
        LET raw == WindowedRead(store, now)
            result == top_out.result
            sign(p) == CHOOSE c \in PolarityClasses :
                          /\ c = -1 <=> p < 0
                          /\ c = 1 <=> p > 0
                          /\ c = 0 <=> p = 0
            bin(r) == Bin(dateconversion(r.created_at))
        IN  /\ \A k \in 1..Len(result) :
                  /\ result[k].polarity \in PolarityClasses
                  /\ result[k].n =
                        Count(raw, LAMBDA r :
                                 /\ bin(r) = result[k].Time
                                 /\ sign(r.polarity) = result[k].polarity)
            /\ \A i \in 1..Len(raw) :
                  \E k \in 1..Len(result) :
                      /\ result[k].Time = bin(raw[i])
                      /\ result[k].polarity = sign(raw[i].polarity)
                      /\ result[k].n >= 1

\* The smallest scores on both sides of zero and a zero score were
\* bucketed in one pass, into three classes.
C13_Witness ==
    /\ top_out.status = "ok"
    /\ {store[i].polarity : i \in 1..Len(store)} = {-1, 0, 1}
    /\ {top_out.result[k].polarity : k \in 1..Len(top_out.result)}
          = PolarityClasses
    /\ \A k \in 1..Len(top_out.result) : top_out.result[k].n = 1

----------------------------------------------------------------------------
(* Properties of locationCreation.py *)

\* C14: in the countries.p the script writes, every country name appended
\* to the list of place names is mapped by STATE_DICT to the code that
\* worldcities.csv gives that country, so that
\* INV_STATE_DICT[STATE_DICT[country]] = country, and every name of the
\* list has an entry in STATE_DICT.
C14_CountryRoundTrip ==
    lookup # NoLookup =>
        /\ \A i \in (Len(locationdata) + 1)..Len(lookup.STATES) :
              LET country == lookup.STATES[i]
              IN  /\ country \in DOMAIN lookup.STATE_DICT
                  /\ \E k \in 1..Len(locationdata) :
                        /\ locationdata[k].country = country
                        /\ locationdata[k].iso3 = lookup.STATE_DICT[country]
                  /\ lookup.STATE_DICT[country] \in DOMAIN lookup.INV_STATE_DICT
                  /\ lookup.INV_STATE_DICT[lookup.STATE_DICT[country]] = country
        /\ \A i \in 1..Len(lookup.STATES) :
              lookup.STATES[i] \in DOMAIN lookup.STATE_DICT

\* C15: on a window that holds rows, the time axis and the Neutrals,
\* Negatives and Positives series have one length, and the i-th value of
\* each series is the number of rows of its class in the 10 s bin that is
\* the i-th time of the axis (plotted below zero for the Negatives), also
\* when one of the classes does not occur in the window.
C15_SeriesAligned ==
    (top_out.status = "ok" /\ WindowedRead(store, now) # <<>>) =>
        LET df == TopFrame(store, now)
            axis == top_out.time_series
            rows(b, p) == Count(df, LAMBDA r : Bin(r.created_at) = b
                                                 /\ r.polarity = p)
        IN  /\ Len(top_out.Neutrals) = Len(axis)
            /\ Len(top_out.Negatives) = Len(axis)
            /\ Len(top_out.Positives) = Len(axis)
            /\ \A i \in 1..Len(axis) :
                  /\ top_out.Neutrals[i] = rows(axis[i], 0)
                  /\ top_out.Negatives[i] = -rows(axis[i], -1)
                  /\ top_out.Positives[i] = rows(axis[i], 1)

====
